---- MODULE Spec2Model ----
(***************************************************************************)
(* Model of scripts/generate_transactions.py: the FeedBuilder that emits a *)
(* chronological feed of deposit / withdrawal / dispute / resolve /        *)
(* chargeback rows while tracking per-account and per-deposit state.       *)
(*                                                                         *)
(* Every Decimal of the program is represented by an integer number of     *)
(* "ticks"; BPS (Decimal("0.0001")) is BPS ticks, so that configured       *)
(* bounds finer than four decimal places (--min-amount 0.00025) exist in   *)
(* the model and quantize() is a real rounding.                            *)
(***************************************************************************)
EXTENDS Integers, Sequences, FiniteSets, TLC

VARIABLES
    fb,        \* the FeedBuilder object (its fields, see FeedBuilderInit)
    rows,      \* args.rows
    feed,      \* the event rows written by main() after the header
    error,     \* "" or the message of the RuntimeError that aborted the run
    depth,     \* number of re-draws (recursive next_row calls) for the current row
    seed,      \* args.seed of the two compared runs
    runA,      \* first of two runs with identical arguments
    runB       \* second of two runs with identical arguments

vars == <<fb, rows, feed, error, depth, seed, runA, runB>>

----------------------------------------------------------------------------
(* Bounds of the model *)

MaxClients == 2      \* args.clients ranges over 1..MaxClients
MaxRows == 9         \* args.rows ranges up to MaxRows, see MaxRowsFor
MaxDepth == 1        \* re-draws counted per row (the count stops there)
MaxFairRows == 4     \* args.rows of the runs followed to their end ranges over 0..MaxFairRows
MaxSeed == 7         \* args.seed of the compared runs ranges over 0..MaxSeed
MaxRunRows == 5      \* args.rows of the compared runs ranges over 0..MaxRunRows
RngMod == 16         \* number of states of the modelled generator

----------------------------------------------------------------------------
(* Decimal helpers *)

\* BPS = Decimal("0.0001"), in ticks
BPS == 2

\* number of BPS in one whole unit (four decimal places)
UnitsPerOne == 10000

None == 0

Min(a, b) == IF a <= b THEN a ELSE b

\* x.quantize(BPS) / BPS under the default context rounding (ROUND_HALF_EVEN),
\* for x >= 0: the number of whole BPS
QuantizeHalfEven(x) ==
    LET q == x \div BPS
        r == x % BPS
    IN  IF 2 * r < BPS THEN q
        ELSE IF 2 * r > BPS THEN q + 1
        ELSE IF q % 2 = 0 THEN q ELSE q + 1

\* x.quantize(BPS, rounding=ROUND_HALF_UP) for x >= 0, in ticks
QuantizeHalfUp(x) ==
    LET q == x \div BPS
        r == x % BPS
    IN  IF 2 * r < BPS THEN q * BPS ELSE (q + 1) * BPS

\* low and high of decimal_from_range: the bounds handed to random.randint
range_low(min_amount) == QuantizeHalfEven(min_amount)

range_high(min_amount, max_amount) ==
    LET low == range_low(min_amount)
        high == QuantizeHalfEven(max_amount)
    IN  IF high < low THEN low ELSE high

\* decimal_from_range, rand being the value random.randint(low, high) returned
decimal_from_range(min_amount, max_amount, rand) ==
    QuantizeHalfUp(rand * BPS)

\* f"{amount:.4f}": the text as <<integer part, four fractional digits>>
format_amount(amount) ==
    LET units == QuantizeHalfEven(amount)
    IN  <<units \div UnitsPerOne, units % UnitsPerOne>>

\* the empty amount field of dispute / resolve / chargeback rows
EmptyField == <<>>

----------------------------------------------------------------------------
(* FeedBuilder: state and queries *)

Range(seq) == {seq[i] : i \in 1..Len(seq)}

\* the orders random.shuffle can leave list(range(1, count + 1)) in
_client_ids(count) ==
    {ids \in [1..count -> 1..count] : \A i, j \in 1..count : ids[i] = ids[j] => i = j}

ClientAccount == [available |-> 0, held |-> 0, locked |-> FALSE]

DepositRecord(client, amount, status) ==
    [client |-> client, amount |-> amount, status |-> status]

\* FeedBuilder.__init__ with valid arguments; ids is what _client_ids returned
FeedBuilderInit(min_amount, max_amount, ids) ==
    [min_amount |-> min_amount,
     max_amount |-> max_amount,
     tx_counter |-> 1,
     client_ids |-> ids,
     accounts |-> [cid \in Range(ids) |-> ClientAccount],
     deposit_records |-> <<>>,
     posted_txs |-> <<>>,
     disputed_txs |-> <<>>]

\* list.remove(tx): drops the first occurrence
ListRemove(pool, tx) ==
    LET first == CHOOSE i \in 1..Len(pool) :
                     pool[i] = tx /\ \A j \in 1..(i - 1) : pool[j] # tx
    IN  [i \in 1..(Len(pool) - 1) |-> IF i < first THEN pool[i] ELSE pool[i + 1]]

_unlocked_clients(s) ==
    SelectSeq(s.client_ids, LAMBDA cid : ~s.accounts[cid].locked)

\* _funded_clients without the test of available
_funded_clients_any_balance(s) ==
    SelectSeq(s.client_ids, LAMBDA cid : ~s.accounts[cid].locked)

_funded_clients(s) ==
    SelectSeq(s.client_ids,
              LAMBDA cid : ~s.accounts[cid].locked
                           /\ s.accounts[cid].available >= s.min_amount)

\* _choose_client returning None although the pool has clients
_choose_client_none(s, require_funds) == {None}

\* the values _choose_client can return
_choose_client(s, require_funds) ==
    LET pool == IF require_funds THEN _funded_clients(s) ELSE _unlocked_clients(s)
    IN  IF pool = <<>> THEN {None} ELSE Range(pool)

\* _choose_tx accepting a tx whose account is locked
Eligible_ignoring_lock(s, tx) ==
    /\ tx \in DOMAIN s.deposit_records
    /\ s.deposit_records[tx].client \in DOMAIN s.accounts

\* the test of _choose_tx on a drawn tx: record and account exist, account not locked
Eligible(s, tx) ==
    /\ tx \in DOMAIN s.deposit_records
    /\ s.deposit_records[tx].client \in DOMAIN s.accounts
    /\ ~s.accounts[s.deposit_records[tx].client].locked

\* _has_posted_for_unlocked without the test of locked
_has_posted_for_any_owner(s) ==
    \E i \in 1..Len(s.posted_txs) :
        s.posted_txs[i] \in DOMAIN s.deposit_records

_has_posted_for_unlocked(s) ==
    \E i \in 1..Len(s.posted_txs) :
        /\ s.posted_txs[i] \in DOMAIN s.deposit_records
        /\ ~s.accounts[s.deposit_records[s.posted_txs[i]].client].locked

_has_disputed_for_unlocked(s) ==
    \E i \in 1..Len(s.disputed_txs) :
        /\ s.disputed_txs[i] \in DOMAIN s.deposit_records
        /\ ~s.accounts[s.deposit_records[s.disputed_txs[i]].client].locked

\* _valid_actions with `len(unlocked) >= 1` for chargeback
_valid_actions_one_unlocked(s) ==
    LET unlocked == _unlocked_clients(s)
        funded == _funded_clients(s)
    IN  (IF unlocked # <<>> THEN {"deposit"} ELSE {})
        \cup (IF funded # <<>> THEN {"withdrawal"} ELSE {})
        \cup (IF _has_posted_for_unlocked(s) THEN {"dispute"} ELSE {})
        \cup (IF _has_disputed_for_unlocked(s) THEN {"resolve"} ELSE {})
        \cup (IF Len(unlocked) >= 1 /\ _has_disputed_for_unlocked(s)
              THEN {"chargeback"} ELSE {})

\* _valid_actions with chargeback legal whenever resolve is
_valid_actions_no_pacing(s) ==
    LET unlocked == _unlocked_clients(s)
        funded == _funded_clients(s)
    IN  (IF unlocked # <<>> THEN {"deposit"} ELSE {})
        \cup (IF funded # <<>> THEN {"withdrawal"} ELSE {})
        \cup (IF _has_posted_for_unlocked(s) THEN {"dispute"} ELSE {})
        \cup (IF _has_disputed_for_unlocked(s) THEN {"resolve", "chargeback"} ELSE {})

_valid_actions(s) ==
    LET unlocked == _unlocked_clients(s)
        funded == _funded_clients(s)
    IN  (IF unlocked # <<>> THEN {"deposit"} ELSE {})
        \cup (IF funded # <<>> THEN {"withdrawal"} ELSE {})
        \cup (IF _has_posted_for_unlocked(s) THEN {"dispute"} ELSE {})
        \cup (IF _has_disputed_for_unlocked(s) THEN {"resolve"} ELSE {})
        \cup (IF Len(unlocked) >= 2 /\ _has_disputed_for_unlocked(s)
              THEN {"chargeback"} ELSE {})

----------------------------------------------------------------------------
(* FeedBuilder: the action handlers.  Each returns the builder after the   *)
(* call, the row it returned (<<>> for None) and the RuntimeError raised.  *)

Row(kind, client, tx, amount) ==
    [kind |-> kind, client |-> client, tx |-> tx, amount |-> amount]

Returned(s, row) == [fb |-> s, rows |-> <<row>>, error |-> "", redraw |-> FALSE]

ReturnedNone(s) == [fb |-> s, rows |-> <<>>, error |-> "", redraw |-> FALSE]

Raised(s, message) == [fb |-> s, rows |-> <<>>, error |-> message, redraw |-> FALSE]

\* rand is the value random.randint returned inside decimal_from_range
_random_deposit(s, client_id, rand) ==
    LET amount == decimal_from_range(s.min_amount, s.max_amount, rand)
        tx == s.tx_counter
    IN  Returned(
            [s EXCEPT !.accounts[client_id].available = @ + amount,
                      !.tx_counter = @ + 1,
                      !.deposit_records = (tx :> DepositRecord(client_id, amount, "posted")) @@ @,
                      !.posted_txs = Append(@, tx)],
            Row("deposit", client_id, tx, format_amount(amount)))

\* _random_withdrawal without `account.available -= amount`
_random_withdrawal_no_debit(s, client_id, rand) ==
    LET max_amt == Min(s.accounts[client_id].available, s.max_amount)
        amount == decimal_from_range(s.min_amount, max_amt, rand)
        tx == s.tx_counter
    IN  IF max_amt < s.min_amount
        THEN Raised(s, "Withdrawal requested without sufficient funds")
        ELSE Returned(
                 [s EXCEPT !.tx_counter = @ + 1],
                 Row("withdrawal", client_id, tx, format_amount(amount)))

\* _random_withdrawal reusing the id instead of consuming it
_random_withdrawal_same_tx(s, client_id, rand) ==
    LET max_amt == Min(s.accounts[client_id].available, s.max_amount)
        amount == decimal_from_range(s.min_amount, max_amt, rand)
        tx == s.tx_counter
    IN  IF max_amt < s.min_amount
        THEN Raised(s, "Withdrawal requested without sufficient funds")
        ELSE Returned(
                 [s EXCEPT !.accounts[client_id].available = @ - amount],
                 Row("withdrawal", client_id, tx, format_amount(amount)))

_random_withdrawal(s, client_id, rand) ==
    LET max_amt == Min(s.accounts[client_id].available, s.max_amount)
        amount == decimal_from_range(s.min_amount, max_amt, rand)
        tx == s.tx_counter
    IN  IF max_amt < s.min_amount
        THEN Raised(s, "Withdrawal requested without sufficient funds")
        ELSE Returned(
                 [s EXCEPT !.accounts[client_id].available = @ - amount,
                           !.tx_counter = @ + 1],
                 Row("withdrawal", client_id, tx, format_amount(amount)))

\* picks is the sequence of values random.choice(pool) returns in the loop;
\* the result is the chosen tx (None when the pool ran empty) and the pool,
\* which the loop edits in place
RECURSIVE _choose_tx(_, _, _)
_choose_tx(s, pool, picks) ==
    IF pool = <<>>
    THEN [tx |-> None, pool |-> pool]
    ELSE LET tx == Head(picks)
         IN  IF Eligible(s, tx)
             THEN [tx |-> tx, pool |-> pool]
             ELSE _choose_tx(s, ListRemove(pool, tx), Tail(picks))

\* _dispute without `self.disputed_txs.append(tx)`
_dispute_not_pooled(s, picks) ==
    LET chosen == _choose_tx(s, s.posted_txs, picks)
        tx == chosen.tx
        record == s.deposit_records[tx]
    IN  IF tx = None
        THEN ReturnedNone([s EXCEPT !.posted_txs = chosen.pool])
        ELSE Returned(
                 [s EXCEPT !.posted_txs = ListRemove(chosen.pool, tx),
                           !.accounts[record.client].available = @ - record.amount,
                           !.accounts[record.client].held = @ + record.amount,
                           !.deposit_records[tx].status = "disputed"],
                 Row("dispute", record.client, tx, EmptyField))

\* _dispute without `account.held += record.amount`
_dispute_no_hold(s, picks) ==
    LET chosen == _choose_tx(s, s.posted_txs, picks)
        tx == chosen.tx
        record == s.deposit_records[tx]
    IN  IF tx = None
        THEN ReturnedNone([s EXCEPT !.posted_txs = chosen.pool])
        ELSE Returned(
                 [s EXCEPT !.posted_txs = ListRemove(chosen.pool, tx),
                           !.accounts[record.client].available = @ - record.amount,
                           !.deposit_records[tx].status = "disputed",
                           !.disputed_txs = Append(@, tx)],
                 Row("dispute", record.client, tx, EmptyField))

\* _dispute without `self.posted_txs.remove(tx)`
_dispute_keep_posted(s, picks) ==
    LET chosen == _choose_tx(s, s.posted_txs, picks)
        tx == chosen.tx
        record == s.deposit_records[tx]
    IN  IF tx = None
        THEN ReturnedNone([s EXCEPT !.posted_txs = chosen.pool])
        ELSE Returned(
                 [s EXCEPT !.posted_txs = chosen.pool,
                           !.accounts[record.client].available = @ - record.amount,
                           !.accounts[record.client].held = @ + record.amount,
                           !.deposit_records[tx].status = "disputed",
                           !.disputed_txs = Append(@, tx)],
                 Row("dispute", record.client, tx, EmptyField))

_dispute(s, picks) ==
    LET chosen == _choose_tx(s, s.posted_txs, picks)
        tx == chosen.tx
        record == s.deposit_records[tx]
    IN  IF tx = None
        THEN ReturnedNone([s EXCEPT !.posted_txs = chosen.pool])
        ELSE Returned(
                 [s EXCEPT !.posted_txs = ListRemove(chosen.pool, tx),
                           !.accounts[record.client].available = @ - record.amount,
                           !.accounts[record.client].held = @ + record.amount,
                           !.deposit_records[tx].status = "disputed",
                           !.disputed_txs = Append(@, tx)],
                 Row("dispute", record.client, tx, EmptyField))

\* _resolve without `self.disputed_txs.remove(tx)`
_resolve_keep_disputed(s, picks) ==
    LET chosen == _choose_tx(s, s.disputed_txs, picks)
        tx == chosen.tx
        record == s.deposit_records[tx]
    IN  IF tx = None
        THEN ReturnedNone([s EXCEPT !.disputed_txs = chosen.pool])
        ELSE Returned(
                 [s EXCEPT !.disputed_txs = chosen.pool,
                           !.accounts[record.client].held = @ - record.amount,
                           !.accounts[record.client].available = @ + record.amount,
                           !.deposit_records[tx].status = "resolved"],
                 Row("resolve", record.client, tx, EmptyField))

\* _resolve putting the record back to "posted"
_resolve_reposts(s, picks) ==
    LET chosen == _choose_tx(s, s.disputed_txs, picks)
        tx == chosen.tx
        record == s.deposit_records[tx]
    IN  IF tx = None
        THEN ReturnedNone([s EXCEPT !.disputed_txs = chosen.pool])
        ELSE Returned(
                 [s EXCEPT !.disputed_txs = ListRemove(chosen.pool, tx),
                           !.accounts[record.client].held = @ - record.amount,
                           !.accounts[record.client].available = @ + record.amount,
                           !.deposit_records[tx].status = "posted",
                           !.posted_txs = Append(@, tx)],
                 Row("resolve", record.client, tx, EmptyField))

_resolve(s, picks) ==
    LET chosen == _choose_tx(s, s.disputed_txs, picks)
        tx == chosen.tx
        record == s.deposit_records[tx]
    IN  IF tx = None
        THEN ReturnedNone([s EXCEPT !.disputed_txs = chosen.pool])
        ELSE Returned(
                 [s EXCEPT !.disputed_txs = ListRemove(chosen.pool, tx),
                           !.accounts[record.client].held = @ - record.amount,
                           !.accounts[record.client].available = @ + record.amount,
                           !.deposit_records[tx].status = "resolved"],
                 Row("resolve", record.client, tx, EmptyField))

\* _chargeback giving the amount back to available
_chargeback_refund(s, picks) ==
    LET chosen == _choose_tx(s, s.disputed_txs, picks)
        tx == chosen.tx
        record == s.deposit_records[tx]
    IN  IF tx = None
        THEN ReturnedNone([s EXCEPT !.disputed_txs = chosen.pool])
        ELSE Returned(
                 [s EXCEPT !.disputed_txs = ListRemove(chosen.pool, tx),
                           !.accounts[record.client].held = @ - record.amount,
                           !.accounts[record.client].available = @ + record.amount,
                           !.accounts[record.client].locked = TRUE,
                           !.deposit_records[tx].status = "chargeback"],
                 Row("chargeback", record.client, tx, EmptyField))

\* _chargeback without `self.disputed_txs.remove(tx)`
_chargeback_keep_disputed(s, picks) ==
    LET chosen == _choose_tx(s, s.disputed_txs, picks)
        tx == chosen.tx
        record == s.deposit_records[tx]
    IN  IF tx = None
        THEN ReturnedNone([s EXCEPT !.disputed_txs = chosen.pool])
        ELSE Returned(
                 [s EXCEPT !.disputed_txs = chosen.pool,
                           !.accounts[record.client].held = @ - record.amount,
                           !.accounts[record.client].locked = TRUE,
                           !.deposit_records[tx].status = "chargeback"],
                 Row("chargeback", record.client, tx, EmptyField))

_chargeback(s, picks) ==
    LET chosen == _choose_tx(s, s.disputed_txs, picks)
        tx == chosen.tx
        record == s.deposit_records[tx]
    IN  IF tx = None
        THEN ReturnedNone([s EXCEPT !.disputed_txs = chosen.pool])
        ELSE Returned(
                 [s EXCEPT !.disputed_txs = ListRemove(chosen.pool, tx),
                           !.accounts[record.client].held = @ - record.amount,
                           !.accounts[record.client].locked = TRUE,
                           !.deposit_records[tx].status = "chargeback"],
                 Row("chargeback", record.client, tx, EmptyField))

----------------------------------------------------------------------------
(* next_row.  rnd holds what the random module returned during the call:   *)
(*   name   random.choices(action_order, weights)                          *)
(*   client random.choice(pool) of _choose_client (None for an empty pool) *)
(*   rand   random.randint(low, high) of decimal_from_range                *)
(*   picks  the random.choice(pool) values of the _choose_tx loop          *)
(*   damp   random.random() > 0.35                                         *)
(* redraw is TRUE when the call ends in `return self.next_row()`.          *)

Redraw(s) == [fb |-> s, rows |-> <<>>, error |-> "", redraw |-> TRUE]

next_row(s, rnd) ==
    LET valid == _valid_actions(s)
    IN  IF valid = {}
        THEN IF rnd.client = None
             THEN Raised(s, "No unlocked clients available to continue generating deposits")
             ELSE _random_deposit(s, rnd.client, rnd.rand)
        ELSE IF rnd.name \in {"deposit", "withdrawal"}
        THEN IF rnd.client = None
             THEN Redraw(s)
             ELSE IF rnd.name = "deposit"
                  THEN _random_deposit(s, rnd.client, rnd.rand)
                  ELSE _random_withdrawal(s, rnd.client, rnd.rand)
        ELSE IF rnd.name = "chargeback" /\ rnd.damp
        THEN Redraw(s)
        ELSE LET result == CASE rnd.name = "dispute" -> _dispute(s, rnd.picks)
                             [] rnd.name = "resolve" -> _resolve(s, rnd.picks)
                             [] rnd.name = "chargeback" -> _chargeback(s, rnd.picks)
             IN  IF result.rows = <<>> THEN Redraw(result.fb) ELSE result

----------------------------------------------------------------------------
(* What the random module can return during one call of next_row *)

RECURSIVE SeqOf(_)
SeqOf(S) ==
    IF S = {} THEN <<>>
    ELSE LET x == CHOOSE y \in S : \A z \in S : y <= z
         IN  <<x>> \o SeqOf(S \ {x})

\* random.randint(low, high) inside decimal_from_range(min_amount, max_amount)
RandInts(min_amount, max_amount) ==
    range_low(min_amount)..range_high(min_amount, max_amount)

\* The random.choice values of the _choose_tx loop: ids that fail the test,
\* each at most once because it is removed, then an id that passes.  The order
\* in which failing ids are drawn does not change what the loop leaves behind.
TxPicks(s, pool) ==
    LET stale == {tx \in Range(pool) : ~Eligible(s, tx)}
        eligible == Range(pool) \ stale
    IN  IF eligible = {}
        THEN {SeqOf(stale)}
        ELSE {SeqOf(dropped) \o <<tx>> : dropped \in SUBSET stale, tx \in eligible}

NoDraw == [name |-> "deposit", client |-> None, rand |-> 0, picks |-> <<>>, damp |-> FALSE]

Draws(s, name, damp) ==
    IF _valid_actions(s) = {}
    THEN {[NoDraw EXCEPT !.client = c, !.rand = r] :
             c \in _choose_client(s, FALSE), r \in RandInts(s.min_amount, s.max_amount)}
    ELSE CASE name = "deposit" ->
                {[NoDraw EXCEPT !.name = name, !.client = c, !.rand = r] :
                    c \in _choose_client(s, FALSE),
                    r \in RandInts(s.min_amount, s.max_amount)}
           [] name = "withdrawal" ->
                UNION {{[NoDraw EXCEPT !.name = name, !.client = c, !.rand = r] :
                           r \in IF c = None THEN {0}
                                 ELSE RandInts(s.min_amount,
                                               Min(s.accounts[c].available, s.max_amount))} :
                       c \in _choose_client(s, TRUE)}
           [] name = "dispute" ->
                {[NoDraw EXCEPT !.name = name, !.picks = p] : p \in TxPicks(s, s.posted_txs)}
           [] name = "chargeback" /\ damp ->
                {[NoDraw EXCEPT !.name = name, !.damp = TRUE]}
           [] OTHER ->
                {[NoDraw EXCEPT !.name = name, !.picks = p] : p \in TxPicks(s, s.disputed_txs)}

----------------------------------------------------------------------------
(* main(): the loop that calls next_row and writes the row *)

total_rows == IF rows >= 1 THEN rows ELSE 1

\* the loop of main() running total_rows times
Running_once_more == error = "" /\ Len(feed) < total_rows

Running == error = "" /\ Len(feed) < total_rows - 1

\* one call of next_row in which random.choices returned name
Step(name, damp) ==
    /\ _valid_actions(fb) = {} \/ name \in _valid_actions(fb)
    /\ \E rnd \in Draws(fb, name, damp) :
           LET out == next_row(fb, rnd)
           IN  /\ fb' = out.fb
               /\ feed' = feed \o out.rows
               /\ error' = out.error
               /\ depth' = IF out.redraw THEN Min(depth + 1, MaxDepth) ELSE 0
    /\ UNCHANGED <<rows, seed, runA, runB>>

Deposit ==
    /\ Running
    /\ Step("deposit", FALSE)

Withdrawal ==
    /\ Running
    /\ Step("withdrawal", FALSE)

Dispute ==
    /\ Running
    /\ Step("dispute", FALSE)

Resolve ==
    /\ Running
    /\ Step("resolve", FALSE)

Chargeback ==
    /\ Running
    /\ Step("chargeback", FALSE)

\* chargeback drawn and rejected by the damping test
Reject ==
    /\ Running
    /\ Step("chargeback", TRUE)

\* The <<min-amount, max-amount>> pairs explored, in ticks (BPS is 2 ticks):
\*   <<1, 2>>  0.00005 .. 0.0001   min-amount finer than BPS, quantized down
\*   <<2, 3>>  0.0001 .. 0.00015   max-amount finer than BPS, quantized up
\*   <<2, 4>>  0.0001 .. 0.0002    both multiples of BPS
\*   <<3, 4>>  0.00015 .. 0.0002   a single amount to draw
AmountBounds == {<<1, 2>>, <<2, 3>>, <<2, 4>>, <<3, 4>>}

\* valid command lines: FeedBuilder.__init__ raises for the others
Configs ==
    {[clients |-> n, min_amount |-> b[1], max_amount |-> b[2]] :
        n \in 1..MaxClients, b \in AmountBounds}

\* The feed length explored for a command line: the longest feeds are
\* explored where there are the fewest clients and amounts to choose from.
MaxRowsFor(cfg) ==
    MaxRows - 2 * (cfg.clients - 1)
            - 2 * (Cardinality(RandInts(cfg.min_amount, cfg.max_amount)) - 1)

DetIdle == seed = 0 /\ runA = <<>> /\ runB = <<>>

Init ==
    /\ \E cfg \in Configs :
           /\ cfg.max_amount > cfg.min_amount
           /\ \E ids \in _client_ids(cfg.clients) :
                  fb = FeedBuilderInit(cfg.min_amount, cfg.max_amount, ids)
           /\ rows \in 0..MaxRowsFor(cfg)
    /\ feed = <<>>
    /\ error = ""
    /\ depth = 0
    /\ DetIdle

Next == Deposit \/ Withdrawal \/ Dispute \/ Resolve \/ Chargeback \/ Reject

Spec == Init /\ [][Next]_vars

\* a call of next_row that returns a row or raises
ReturnRow == Next /\ (feed' # feed \/ error' # error)

\* Every draw of random.choices gives each legal kind a positive chance and
\* the damping test accepts with chance 0.35, so a call that can return a row
\* does not keep re-drawing for ever.
InitFair == Init /\ rows <= MaxFairRows

SpecFair == InitFair /\ [][Next]_vars /\ WF_vars(ReturnRow)

----------------------------------------------------------------------------
(* Properties of the feed and of the ledger state *)

Clients == DOMAIN fb.accounts

FeedIdx == 1..Len(feed)

Locked(c) == fb.accounts[c].locked

\* a chargeback row names c as client
ChargedBack(c) ==
    \E i \in FeedIdx : feed[i].kind = "chargeback" /\ feed[i].client = c

\* the deposit and withdrawal rows of the feed, in emission order
MoneyRows == SelectSeq(feed, LAMBDA row : row.kind \in {"deposit", "withdrawal"})

\* C1: every account has available >= 0 in every reachable state, also right
\* after a dispute of a deposit whose funds were withdrawn earlier
C1_AvailableNonNegative ==
    \A c \in Clients : fb.accounts[c].available >= 0

\* C2: every account, locked or unlocked, has held >= 0 in every reachable state
C2_HeldNonNegative ==
    \A c \in Clients : fb.accounts[c].held >= 0

\* funds are held on one account while another account is locked
C2_Witness ==
    /\ \E c \in Clients : fb.accounts[c].held > 0
    /\ \E c \in Clients : Locked(c)

\* C3: once a chargeback row names an account it is locked, no later row names
\* it as client, and its available and held never change again
C3_LockedForever ==
    [][\A c \in Clients :
          /\ ChargedBack(c)' => fb'.accounts[c].locked
          /\ ChargedBack(c) =>
                /\ fb'.accounts[c] = fb.accounts[c]
                /\ \A i \in (Len(feed) + 1)..Len(feed') : feed'[i].client # c]_vars

\* a charged-back account whose posted deposit was drawn by _choose_tx and
\* dropped from the posted pool while a later dispute row was produced
C3_Witness ==
    \E c \in Clients :
        /\ ChargedBack(c)
        /\ \E tx \in DOMAIN fb.deposit_records :
              /\ fb.deposit_records[tx].client = c
              /\ fb.deposit_records[tx].status = "posted"
              /\ tx \notin Range(fb.posted_txs)
        /\ feed[Len(feed)].kind = "dispute"

\* C4: every dispute row references a tx of an earlier deposit row of the same
\* client, and no tx is disputed twice without a resolve row for it in between
C4_DisputeOfDeposit ==
    \A j \in FeedIdx :
        feed[j].kind = "dispute" =>
            /\ \E i \in 1..(j - 1) :
                  /\ feed[i].kind = "deposit"
                  /\ feed[i].tx = feed[j].tx
                  /\ feed[i].client = feed[j].client
            /\ \A i \in 1..(j - 1) :
                  (feed[i].kind = "dispute" /\ feed[i].tx = feed[j].tx) =>
                      \E k \in (i + 1)..(j - 1) :
                          feed[k].kind = "resolve" /\ feed[k].tx = feed[j].tx

\* a feed with a withdrawal, a dispute, its resolve, and a dispute after that
C4_Witness ==
    /\ \E w \in FeedIdx : feed[w].kind = "withdrawal"
    /\ \E i, j, k \in FeedIdx :
          /\ i < j /\ j < k
          /\ feed[i].kind = "dispute"
          /\ feed[j].kind = "resolve" /\ feed[j].tx = feed[i].tx
          /\ feed[k].kind = "dispute"

\* C5: every resolve or chargeback row references a tx with an earlier dispute
\* row that no resolve or chargeback row for the same tx has followed yet
C5_CloseOfOpenDispute ==
    \A j \in FeedIdx :
        feed[j].kind \in {"resolve", "chargeback"} =>
            \E i \in 1..(j - 1) :
                /\ feed[i].kind = "dispute"
                /\ feed[i].tx = feed[j].tx
                /\ \A k \in (i + 1)..(j - 1) :
                      ~(feed[k].kind \in {"resolve", "chargeback"}
                        /\ feed[k].tx = feed[j].tx)

\* a feed with a resolve row and a later chargeback row
C5_Witness ==
    \E i, j \in FeedIdx :
        /\ i < j
        /\ feed[i].kind = "resolve"
        /\ feed[j].kind = "chargeback"

\* C6: the k-th deposit-or-withdrawal row has tx k, and only those rows
\* consume an id
C6_SharedCounter ==
    /\ \A k \in 1..Len(MoneyRows) : MoneyRows[k].tx = k
    /\ fb.tx_counter = Len(MoneyRows) + 1

\* a withdrawal and a dispute were emitted before the latest deposit
C6_Witness ==
    /\ Len(feed) >= 4
    /\ feed[Len(feed)].kind = "deposit"
    /\ \E i, j \in 1..(Len(feed) - 1) :
          feed[i].kind = "withdrawal" /\ feed[j].kind = "dispute"

\* C8: with clients=1 no feed contains a chargeback row and the single
\* account is never locked
C8_SingleClientNeverChargedBack ==
    Len(fb.client_ids) = 1 =>
        /\ \A i \in FeedIdx : feed[i].kind # "chargeback"
        /\ \A c \in Clients : ~Locked(c)
        /\ "chargeback" \notin _valid_actions(fb)

\* the single account has an open dispute after a few rows, so that resolve
\* is legal and chargeback is held back by the two-account condition alone
C8_Witness ==
    /\ Len(fb.client_ids) = 1
    /\ Len(feed) >= 3
    /\ "resolve" \in _valid_actions(fb)

\* the number a non-empty amount field stands for, in ticks
AmountValue(text) == (text[1] * UnitsPerOne + text[2]) * BPS

\* C9: every deposit amount lies in [min-amount, max-amount]; every withdrawal
\* amount lies in [min-amount, available just before it] and is at most
\* max-amount
C9_AmountsWithinBounds ==
    [][\A i \in (Len(feed) + 1)..Len(feed') :
          LET row == feed'[i]
              value == AmountValue(row.amount)
          IN  /\ row.kind = "deposit" =>
                    fb.min_amount <= value /\ value <= fb.max_amount
              /\ row.kind = "withdrawal" =>
                    /\ fb.min_amount <= value
                    /\ value <= fb.accounts[row.client].available
                    /\ value <= fb.max_amount]_vars

\* C10: some account is unlocked in every reachable state, and the error
\* "No unlocked clients available ..." is never raised
C10_SomeClientUnlocked ==
    /\ \E c \in Clients : ~Locked(c)
    /\ error # "No unlocked clients available to continue generating deposits"

\* all accounts but one are locked and the last one has an open dispute
C10_Witness ==
    /\ \E c \in Clients : Locked(c)
    /\ Cardinality({c \in Clients : ~Locked(c)}) = 1
    /\ _has_disputed_for_unlocked(fb)

----------------------------------------------------------------------------
(* Two runs of main() with the same arguments.                             *)
(*                                                                         *)
(* The random module is a deterministic generator: every value it returns  *)
(* is a function of its state, and random.seed(n) sets the state from n.   *)
(* It is modelled by a small linear congruential generator.  Before        *)
(* random.seed is called the state is the one the interpreter took from    *)
(* the operating system's entropy at import, which differs between runs.   *)

rng_seed(n) == n % RngMod

rng_next(state) == (5 * state + 3) % RngMod

\* random.choice(pool)
random_choice(pool, state) == pool[1 + (state % Len(pool))]

\* random.randint(low, high)
random_randint(low, high, state) == low + (state % (high - low + 1))

\* random.shuffle(ids): Fisher-Yates from the last position down
RECURSIVE random_shuffle(_, _, _)
random_shuffle(ids, i, state) ==
    IF i <= 1 THEN ids
    ELSE LET j == 1 + (state % i)
             swapped == [ids EXCEPT ![i] = ids[j], ![j] = ids[i]]
         IN  random_shuffle(swapped, i - 1, rng_next(state))

\* action_order of next_row with the weights in hundredths
action_order ==
    <<[name |-> "deposit", weight |-> 48],
      [name |-> "withdrawal", weight |-> 28],
      [name |-> "dispute", weight |-> 12],
      [name |-> "resolve", weight |-> 10],
      [name |-> "chargeback", weight |-> 2]>>

weights(valid) ==
    [i \in 1..Len(action_order) |->
        IF action_order[i].name \in valid THEN action_order[i].weight ELSE 0]

RECURSIVE CumWeight(_, _)
CumWeight(w, i) == IF i = 0 THEN 0 ELSE w[i] + CumWeight(w, i - 1)

\* random.choices(action_order, weights=weights, k=1)[0]: the first entry whose
\* cumulative weight exceeds random() * total
random_choices(valid, state) ==
    LET w == weights(valid)
        total == CumWeight(w, Len(w))
        i == CHOOSE k \in 1..Len(w) :
                 /\ CumWeight(w, k) * RngMod > state * total
                 /\ \A m \in 1..(k - 1) : CumWeight(w, m) * RngMod <= state * total
    IN  action_order[i].name

\* random.random() > 0.35
damping_rejects(state) == 100 * state > 35 * RngMod

\* the random.choice values of the _choose_tx loop, drawn from the generator
RECURSIVE seeded_picks(_, _, _)
seeded_picks(s, pool, state) ==
    IF pool = <<>>
    THEN [picks |-> <<>>, rng |-> state]
    ELSE LET tx == random_choice(pool, state)
             rest == seeded_picks(s, ListRemove(pool, tx), rng_next(state))
         IN  IF Eligible(s, tx)
             THEN [picks |-> <<tx>>, rng |-> rng_next(state)]
             ELSE [picks |-> <<tx>> \o rest.picks, rng |-> rest.rng]

\* client and amount draws of a deposit or withdrawal from the given pool
seeded_money(s, name, pool, state) ==
    IF pool = <<>>
    THEN [rnd |-> [NoDraw EXCEPT !.name = name], rng |-> state]
    ELSE LET c == random_choice(pool, state)
             max_amt == IF name = "withdrawal"
                        THEN Min(s.accounts[c].available, s.max_amount)
                        ELSE s.max_amount
             after == rng_next(state)
         IN  IF max_amt < s.min_amount
             THEN [rnd |-> [NoDraw EXCEPT !.name = name, !.client = c], rng |-> after]
             ELSE [rnd |-> [NoDraw EXCEPT
                               !.name = name, !.client = c,
                               !.rand = random_randint(range_low(s.min_amount),
                                                       range_high(s.min_amount, max_amt),
                                                       after)],
                   rng |-> rng_next(after)]

\* what the random module returns during one call of next_row that starts
\* with the generator in `state`, and the generator's state afterwards
seeded_draw(s, state) ==
    LET valid == _valid_actions(s)
        name == random_choices(valid, state)
        after == rng_next(state)
        picked == seeded_picks(s, IF name = "dispute" THEN s.posted_txs ELSE s.disputed_txs,
                               IF name = "chargeback" THEN rng_next(after) ELSE after)
    IN  IF valid = {}
        THEN seeded_money(s, "deposit", _unlocked_clients(s), state)
        ELSE IF name = "deposit"
        THEN seeded_money(s, name, _unlocked_clients(s), after)
        ELSE IF name = "withdrawal"
        THEN seeded_money(s, name, _funded_clients(s), after)
        ELSE IF name = "chargeback" /\ damping_rejects(after)
        THEN [rnd |-> [NoDraw EXCEPT !.name = name, !.damp = TRUE], rng |-> rng_next(after)]
        ELSE [rnd |-> [NoDraw EXCEPT !.name = name, !.picks = picked.picks],
              rng |-> picked.rng]

\* FeedBuilder(args) in a run whose generator held `entropy` at start-up:
\* _client_ids shuffles with that state, then random.seed(args.seed)
SeededRun(cfg, entropy) ==
    [fb |-> FeedBuilderInit(cfg.min_amount, cfg.max_amount,
                            random_shuffle([i \in 1..cfg.clients |-> i], cfg.clients, entropy)),
     rng |-> rng_seed(seed),
     feed |-> <<>>,
     error |-> ""]

RunDone(run) == run.error # "" \/ Len(run.feed) >= total_rows - 1

\* one call of next_row in a seeded run
SeededStep(run) ==
    LET d == seeded_draw(run.fb, run.rng)
        out == next_row(run.fb, d.rnd)
    IN  [fb |-> out.fb,
         rng |-> d.rng,
         feed |-> run.feed \o out.rows,
         error |-> out.error]

StepA ==
    /\ ~RunDone(runA)
    /\ runA' = SeededStep(runA)
    /\ UNCHANGED <<fb, rows, feed, error, depth, seed, runB>>

StepB ==
    /\ ~RunDone(runB)
    /\ runB' = SeededStep(runB)
    /\ UNCHANGED <<fb, rows, feed, error, depth, seed, runA>>

MainIdle ==
    /\ fb = FeedBuilderInit(1, 2, <<1>>)
    /\ feed = <<>>
    /\ error = ""
    /\ depth = 0

InitRuns ==
    /\ MainIdle
    /\ seed \in 0..MaxSeed
    /\ rows \in 0..MaxRunRows
    /\ \E cfg \in Configs :
           /\ cfg.max_amount > cfg.min_amount
           /\ \E entropyA, entropyB \in 0..(RngMod - 1) :
                  /\ runA = SeededRun(cfg, entropyA)
                  /\ runB = SeededRun(cfg, entropyB)

NextRuns == StepA \/ StepB

SpecRuns == InitRuns /\ [][NextRuns]_vars

\* C7: two runs with identical seed, rows, clients, min-amount and max-amount
\* produce identical output
C7_Determinism ==
    (RunDone(runA) /\ RunDone(runB)) => runA.feed = runB.feed

\* two runs whose client ids were shuffled into the same order agree
SameOrderSameFeed ==
    (/\ runA # <<>>
     /\ runA.fb.client_ids = runB.fb.client_ids
     /\ RunDone(runA) /\ RunDone(runB)) => runA.feed = runB.feed

----------------------------------------------------------------------------
(* Properties of next_row and of main() *)

\* C11: from every reachable state a call of next_row eventually returns a
\* row, also when chargeback is legal and its draw is rejected by the damping
C11_NextRowReturns ==
    \A n \in 0..MaxFairRows :
        (Running /\ Len(feed) = n) ~> (Len(feed) = n + 1)

\* a call of next_row that has re-drawn after a damped chargeback
C11_Witness ==
    /\ Running
    /\ depth > 0
    /\ "chargeback" \in _valid_actions(fb)

\* the header row and the rows main() has written
Header == Row("type", "client", "tx", "amount")

Output == <<Header>> \o feed

\* C12: with --rows = N >= 1 the run completes without a fatal error and the
\* output is the header followed by exactly N-1 event rows; for N <= 1 only
\* the header is written
C12_RunCompletes ==
    /\ [](error = "" /\ Len(Output) <= total_rows)
    /\ <>[](~Running /\ Len(Output) = total_rows)

\* a finished run that wrote several event rows
C12_Witness ==
    /\ rows >= 3
    /\ ~Running
    /\ error = ""
    /\ Len(Output) = rows

\* C13: "Withdrawal requested without sufficient funds" is never raised:
\* a withdrawal is dispatched for an unlocked client with
\* min(available, max-amount) >= min-amount, and leaves available >= 0
C13_WithdrawalFunded ==
    [][/\ error' # "Withdrawal requested without sufficient funds"
       /\ \A i \in (Len(feed) + 1)..Len(feed') :
             feed'[i].kind = "withdrawal" =>
                 LET c == feed'[i].client
                 IN  /\ ~fb.accounts[c].locked
                     /\ Min(fb.accounts[c].available, fb.max_amount) >= fb.min_amount
                     /\ fb'.accounts[c].available >= 0]_vars

\* the latest row withdrew all that its client had
C13_Witness ==
    /\ feed # <<>>
    /\ feed[Len(feed)].kind = "withdrawal"
    /\ fb.accounts[feed[Len(feed)].client].available = 0

\* the legality of a kind of row in builder state s, as the claim words it
Legal(s, kind) ==
    LET unlocked == {c \in DOMAIN s.accounts : ~s.accounts[c].locked}
        owned(pool) == \E tx \in Range(pool) :
                           /\ tx \in DOMAIN s.deposit_records
                           /\ s.deposit_records[tx].client \in unlocked
    IN  CASE kind = "deposit" -> unlocked # {}
          [] kind = "withdrawal" ->
                \E c \in unlocked : s.accounts[c].available >= s.min_amount
          [] kind = "dispute" -> owned(s.posted_txs)
          [] kind = "resolve" -> owned(s.disputed_txs)
          [] kind = "chargeback" ->
                owned(s.disputed_txs) /\ Cardinality(unlocked) >= 2
          [] OTHER -> FALSE

\* C14: every emitted row has a kind that is legal in the state just before
\* its emission; in particular the first row of a feed is a deposit
C14_RowsLegal ==
    [][\A i \in (Len(feed) + 1)..Len(feed') :
          /\ Legal(fb, feed'[i].kind)
          /\ i = 1 => feed'[i].kind = "deposit"]_vars

\* a chargeback row was emitted after a withdrawal row
C14_Witness ==
    /\ feed # <<>>
    /\ feed[Len(feed)].kind = "chargeback"
    /\ \E i \in FeedIdx : feed[i].kind = "withdrawal"

\* the steps a Deposit Record's status may take
StatusSteps ==
    {<<"posted", "disputed">>, <<"disputed", "resolved">>, <<"disputed", "chargeback">>}

\* C15: a Deposit Record is created only by a deposit, with status posted, is
\* never deleted, keeps its client and amount, and its status only moves
\* posted -> disputed -> resolved or chargeback
C15_RecordLifecycle ==
    [][/\ \A tx \in DOMAIN fb.deposit_records :
             /\ tx \in DOMAIN fb'.deposit_records
             /\ fb'.deposit_records[tx].client = fb.deposit_records[tx].client
             /\ fb'.deposit_records[tx].amount = fb.deposit_records[tx].amount
             /\ \/ fb'.deposit_records[tx].status = fb.deposit_records[tx].status
                \/ <<fb.deposit_records[tx].status, fb'.deposit_records[tx].status>>
                       \in StatusSteps
       /\ \A tx \in DOMAIN fb'.deposit_records \ DOMAIN fb.deposit_records :
             /\ fb'.deposit_records[tx].status = "posted"
             /\ \E i \in (Len(feed) + 1)..Len(feed') :
                   /\ feed'[i].kind = "deposit"
                   /\ feed'[i].tx = tx
                   /\ feed'[i].client = fb'.deposit_records[tx].client]_vars

\* one record ended as resolved and another as chargeback
C15_Witness ==
    /\ \E tx \in DOMAIN fb.deposit_records : fb.deposit_records[tx].status = "resolved"
    /\ \E tx \in DOMAIN fb.deposit_records : fb.deposit_records[tx].status = "chargeback"

NoDuplicates(pool) ==
    \A i, j \in 1..Len(pool) : pool[i] = pool[j] => i = j

\* C16: a tx id is at most once in the two pools together, posted-pool ids
\* have status posted, disputed-pool ids have status disputed, and ids with
\* status resolved or chargeback are in neither pool
C16_PoolsMatchStatus ==
    /\ NoDuplicates(fb.posted_txs \o fb.disputed_txs)
    /\ \A tx \in Range(fb.posted_txs) :
          tx \in DOMAIN fb.deposit_records /\ fb.deposit_records[tx].status = "posted"
    /\ \A tx \in Range(fb.disputed_txs) :
          tx \in DOMAIN fb.deposit_records /\ fb.deposit_records[tx].status = "disputed"
    /\ \A tx \in DOMAIN fb.deposit_records :
          fb.deposit_records[tx].status \in {"resolved", "chargeback"} =>
              tx \notin Range(fb.posted_txs) \cup Range(fb.disputed_txs)

\* after a chargeback the locked account still has an id in the disputed pool
C16_Witness ==
    /\ \E tx \in DOMAIN fb.deposit_records : fb.deposit_records[tx].status = "chargeback"
    /\ \E tx \in Range(fb.disputed_txs) : Locked(fb.deposit_records[tx].client)

\* the pool that holds the ids of a status
PoolOf(status) ==
    CASE status = "posted" -> Range(fb.posted_txs)
      [] status = "disputed" -> Range(fb.disputed_txs)
      [] OTHER -> {}

\* C17 as stated: every record with status posted is in the posted pool and
\* every record with status disputed is in the disputed pool, the records of
\* locked accounts included
C17_LockstepBothWays ==
    \A tx \in DOMAIN fb.deposit_records :
        fb.deposit_records[tx].status \in {"posted", "disputed"} =>
            tx \in PoolOf(fb.deposit_records[tx].status)

\* C17 amended: every record with status posted or disputed whose account is
\* not locked has its id in the pool of its status
C17_LockstepUnlocked ==
    \A tx \in DOMAIN fb.deposit_records :
        /\ fb.deposit_records[tx].status \in {"posted", "disputed"}
        /\ ~Locked(fb.deposit_records[tx].client)
        => tx \in PoolOf(fb.deposit_records[tx].status)

\* a posted id of a locked account was dropped from the posted pool, while
\* the disputed record of an unlocked account is in the disputed pool
C17_Witness ==
    /\ \E tx \in DOMAIN fb.deposit_records :
          /\ Locked(fb.deposit_records[tx].client)
          /\ fb.deposit_records[tx].status = "posted"
          /\ tx \notin Range(fb.posted_txs)
    /\ \E tx \in Range(fb.disputed_txs) : ~Locked(fb.deposit_records[tx].client)

\* C18: on the tx of amount A of account c, dispute does available -= A and
\* held += A, resolve does held -= A and available += A, chargeback does
\* held -= A, keeps available and sets locked; every other account, every
\* other record and the tx counter are unchanged
C18_DisputeFamilyEffects ==
    [][\A i \in (Len(feed) + 1)..Len(feed') :
          feed'[i].kind \in {"dispute", "resolve", "chargeback"} =>
              LET kind == feed'[i].kind
                  tx == feed'[i].tx
                  c == fb.deposit_records[tx].client
                  A == fb.deposit_records[tx].amount
                  acc == fb.accounts[c]
              IN  /\ feed'[i].client = c
                  /\ fb'.accounts[c] =
                        CASE kind = "dispute" ->
                                 [acc EXCEPT !.available = @ - A, !.held = @ + A]
                          [] kind = "resolve" ->
                                 [acc EXCEPT !.held = @ - A, !.available = @ + A]
                          [] kind = "chargeback" ->
                                 [acc EXCEPT !.held = @ - A, !.locked = TRUE]
                  /\ \A o \in DOMAIN fb.accounts \ {c} : fb'.accounts[o] = fb.accounts[o]
                  /\ DOMAIN fb'.deposit_records = DOMAIN fb.deposit_records
                  /\ \A o \in DOMAIN fb.deposit_records \ {tx} :
                        fb'.deposit_records[o] = fb.deposit_records[o]
                  /\ fb'.tx_counter = fb.tx_counter]_vars

\* a chargeback was applied while the other account had funds
C18_Witness ==
    /\ feed # <<>>
    /\ feed[Len(feed)].kind = "chargeback"
    /\ \E c \in Clients : ~Locked(c) /\ fb.accounts[c].available > 0

\* the sum of the amounts of the rows of a kind for client c
RowSum(kind, c) ==
    LET sum[i \in 0..Len(feed)] ==
            IF i = 0 THEN 0
            ELSE sum[i - 1] + (IF feed[i].kind = kind /\ feed[i].client = c
                               THEN AmountValue(feed[i].amount) ELSE 0)
    IN  sum[Len(feed)]

\* the sum of the amounts of the records of client c that have a status
RecordSum(status, c) ==
    LET sum[i \in 0..fb.tx_counter] ==
            IF i = 0 THEN 0
            ELSE sum[i - 1] + (IF /\ i \in DOMAIN fb.deposit_records
                                  /\ fb.deposit_records[i].client = c
                                  /\ fb.deposit_records[i].status = status
                               THEN fb.deposit_records[i].amount ELSE 0)
    IN  sum[fb.tx_counter]

\* C19: for every account, held is the sum of its disputed records, and
\* available + held is deposits - withdrawals - charged-back amounts
C19_LedgerConservation ==
    \A c \in Clients :
        /\ fb.accounts[c].held = RecordSum("disputed", c)
        /\ fb.accounts[c].available + fb.accounts[c].held =
               RowSum("deposit", c) - RowSum("withdrawal", c) - RecordSum("chargeback", c)

\* an account with a withdrawal was charged back while it held a second dispute
C19_Witness ==
    \E c \in Clients :
        /\ RowSum("withdrawal", c) > 0
        /\ RecordSum("chargeback", c) > 0
        /\ RecordSum("disputed", c) > 0

\* C20: whenever next_row is called, the only re-draw it can make is the
\* chargeback damping: some action is valid (none is valid exactly when no
\* account is unlocked), a drawn deposit or withdrawal gets a client, a
\* dispatched dispute, resolve or chargeback returns a row (next_row re-draws
\* on None), and a rejected draw leaves the builder unchanged
C20_OnlyDampingRedraws ==
    Running =>
        /\ (_valid_actions(fb) = {}) <=> (_unlocked_clients(fb) = <<>>)
        /\ _valid_actions(fb) # {}
        /\ \A name \in _valid_actions(fb) :
              \A damp \in IF name = "chargeback" THEN BOOLEAN ELSE {FALSE} :
                  \A rnd \in Draws(fb, name, damp) :
                      /\ name \in {"deposit", "withdrawal"} => rnd.client # None
                      /\ LET out == next_row(fb, rnd)
                         IN  out.redraw =>
                                 name = "chargeback" /\ rnd.damp /\ out.fb = fb

\* a chargeback draw was rejected while both pools held ids
C20_Witness ==
    /\ depth > 0
    /\ fb.posted_txs # <<>>
    /\ fb.disputed_txs # <<>>

====
